---- MODULE Spec2Model ----
(***************************************************************************)
(* A model of date_managers.py: the two phrase grammars                    *)
(* (PastDatePhraseHandler, IntervalDatePhraseHandler), the strategy        *)
(* factory (DateHandlerFactory), the four interval strategies              *)
(* (Day/Week/Month/YearInterval), date_string_handler and the generator    *)
(* date_range_iterator.                                                    *)
(*                                                                         *)
(* Python strings are sequences of one-character strings, so that          *)
(* split, strip, lower, replace and int() are computed and not assumed.    *)
(* A datetime is a record [ord, tod]: the proleptic Gregorian ordinal of   *)
(* its date (datetime.toordinal) and its time of day in abstract units     *)
(* (0 is midnight).                                                        *)
(***************************************************************************)
EXTENDS Integers, Sequences, FiniteSets

VARIABLES
    handler,    \* the phrase handler object: class, date_value, cadence, time_bucket
    outcome,    \* the last phrase_to_date call: the handler before it and what it did
    factory,    \* the last get_date_handler call: its arguments and how it ended
    strategy,   \* what that call returned: a strategy object, or none when it raised
    dateres,    \* the last call on the strategy object: its argument and its result
    call,       \* the arguments of the current date_range_iterator call
    gen,        \* the two generator objects of the call, by end_inclusive
    out,        \* the pairs each generator has yielded so far
    resolved    \* the last date_string_handler call: its argument, the clock, its result

vars == <<handler, outcome, factory, strategy, dateres, call, gen, out, resolved>>

(***************************************************************************)
(* Bounds of the model.                                                    *)
(***************************************************************************)
\* the most pairs one generator is asked for
MaxPairs == 8
\* the factory is called with cadences -1..MaxCadence
MaxCadence == 3

(***************************************************************************)
(* Python values a handler field can hold: None, an int or a str.          *)
(***************************************************************************)
NoneV == [t |-> "none", i |-> 0, s |-> <<>>]
IntV(n) == [t |-> "int", i |-> n, s |-> <<>>]
StrV(s) == [t |-> "str", i |-> 0, s |-> s]

(***************************************************************************)
(* str: the methods of Python's str that the code calls.                   *)
(***************************************************************************)
LowerLetters ==
    {"a","b","c","d","e","f","g","h","i","j","k","l","m",
     "n","o","p","q","r","s","t","u","v","w","x","y","z"}

Digits == {"0","1","2","3","4","5","6","7","8","9"}

Whitespace == {" ", "\t", "\n"}

\* the upper-case letters of the inputs of the model, with their lower case
UpperMap ==
    [c \in {"A","D","L","M","T","W","Y"} |->
        CASE c = "A" -> "a" [] c = "D" -> "d" [] c = "L" -> "l" [] c = "M" -> "m"
          [] c = "T" -> "t" [] c = "W" -> "w" [] c = "Y" -> "y"]

\* str.lower()
LowerStr(s) ==
    [i \in 1..Len(s) |-> IF s[i] \in DOMAIN UpperMap THEN UpperMap[s[i]] ELSE s[i]]

RECURSIVE LStrip(_)
LStrip(s) ==
    IF s # <<>> /\ Head(s) \in Whitespace THEN LStrip(Tail(s)) ELSE s

RECURSIVE RStrip(_)
RStrip(s) ==
    IF s # <<>> /\ s[Len(s)] \in Whitespace
    THEN RStrip(SubSeq(s, 1, Len(s) - 1))
    ELSE s

\* str.strip()
Strip(s) == RStrip(LStrip(s))

RECURSIVE SplitFrom(_, _, _, _)
SplitFrom(s, sep, i, cur) ==
    IF i > Len(s) THEN <<cur>>
    ELSE IF s[i] = sep THEN <<cur>> \o SplitFrom(s, sep, i + 1, <<>>)
    ELSE SplitFrom(s, sep, i + 1, Append(cur, s[i]))

\* str.split(sep) for a one-character separator: empty parts are kept
Split(s, sep) == SplitFrom(s, sep, 1, <<>>)

\* str.replace(old, new) for one-character old and new
ReplaceChar(s, old, new) ==
    [i \in 1..Len(s) |-> IF s[i] = old THEN new ELSE s[i]]

\* str.replace(old, "") for a one-character old: every occurrence goes
RemoveChar(s, old) == SelectSeq(s, LAMBDA c : c # old)

\* str.endswith(c) for a one-character c
EndsWith(s, c) == s # <<>> /\ s[Len(s)] = c

\* re.search(r"[a-z]+", s)
HasLowerLetter(s) == \E i \in 1..Len(s) : s[i] \in LowerLetters

\* re.search(r"\_", s)
HasUnderscore(s) == \E i \in 1..Len(s) : s[i] = "_"

DigitVal(c) ==
    CASE c = "0" -> 0 [] c = "1" -> 1 [] c = "2" -> 2 [] c = "3" -> 3
      [] c = "4" -> 4 [] c = "5" -> 5 [] c = "6" -> 6 [] c = "7" -> 7
      [] c = "8" -> 8 [] c = "9" -> 9

AllDigits(s) == s # <<>> /\ \A i \in 1..Len(s) : s[i] \in Digits

RECURSIVE DigitsVal(_)
DigitsVal(s) ==
    IF s = <<>> THEN 0
    ELSE 10 * DigitsVal(SubSeq(s, 1, Len(s) - 1)) + DigitVal(s[Len(s)])

\* int(x): an int is returned as it is; a str is stripped, may carry one sign and
\* must then be decimal digits, else ValueError
PyInt(x) ==
    IF x.t = "int" THEN [ok |-> TRUE, val |-> x.i]
    ELSE LET t == Strip(x.s)
             signed == t # <<>> /\ Head(t) \in {"+", "-"}
             body == IF signed THEN Tail(t) ELSE t
         IN IF x.t = "str" /\ AllDigits(body)
            THEN [ok |-> TRUE,
                  val |-> IF signed /\ Head(t) = "-"
                          THEN 0 - DigitsVal(body) ELSE DigitsVal(body)]
            ELSE [ok |-> FALSE, val |-> 0]

(***************************************************************************)
(* datetime: the proleptic Gregorian calendar of Python's datetime.        *)
(***************************************************************************)
IsLeap(y) == y % 4 = 0 /\ (y % 100 # 0 \/ y % 400 = 0)

DaysInMonth(y, m) ==
    CASE m \in {1, 3, 5, 7, 8, 10, 12} -> 31
      [] m \in {4, 6, 9, 11} -> 30
      [] m = 2 -> IF IsLeap(y) THEN 29 ELSE 28

DaysBeforeYear(y) ==
    (y - 1) * 365 + ((y - 1) \div 4) - ((y - 1) \div 100) + ((y - 1) \div 400)

\* _DAYS_BEFORE_MONTH, with the leap day of the year
DaysBeforeMonth(y, m) ==
    <<0, 31, 59, 90, 120, 151, 181, 212, 243, 273, 304, 334>>[m]
        + (IF m > 2 /\ IsLeap(y) THEN 1 ELSE 0)

\* datetime(y, m, d).toordinal()
YmdToOrd(y, m, d) == DaysBeforeYear(y) + DaysBeforeMonth(y, m) + d

\* the year an ordinal falls in
OrdYear(n) ==
    LET n0 == n - 1
        n400 == n0 \div 146097
        r400 == n0 % 146097
        n100 == r400 \div 36524
        r100 == r400 % 36524
        n4 == r100 \div 1461
        r4 == r100 % 1461
        n1 == r4 \div 365
        y == n400 * 400 + 1 + n100 * 100 + n4 * 4 + n1
    IN IF n1 = 4 \/ n100 = 4 THEN y - 1 ELSE y

\* the month and the day of day doy (1..366) of year y: the month is estimated
\* from the day and taken back by one when it starts after the day
DayOfYearToYmd(y, doy, guess) ==
    IF DaysBeforeMonth(y, guess) >= doy
    THEN <<y, guess - 1, doy - DaysBeforeMonth(y, guess - 1)>>
    ELSE <<y, guess, doy - DaysBeforeMonth(y, guess)>>

\* the date of day doy of year y
YearDayToYmd(y, doy) == DayOfYearToYmd(y, doy, (doy + 49) \div 32)

\* datetime.fromordinal(n) as <<year, month, day>>
OrdInYear(y, n) == YearDayToYmd(y, n - DaysBeforeYear(y))

OrdToYmd(n) == OrdInYear(OrdYear(n), n)

\* datetime.weekday(): Monday is 0, Sunday is 6
Weekday(dt) == (dt.ord + 6) % 7

\* a datetime of a calendar date and a time of day
MkDate(y, m, d, tod) == [ord |-> YmdToOrd(y, m, d), tod |-> tod]

\* dt + timedelta(days=n)
PlusDays(dt, n) == [dt EXCEPT !.ord = dt.ord + n]

\* dt1 <= dt2 on datetimes
DtLe(a, b) == a.ord < b.ord \/ (a.ord = b.ord /\ a.tod <= b.tod)

\* datetime.strftime(dt, "%Y-%m-%d"): the calendar date, the time of day dropped
Strftime(dt) == OrdToYmd(dt.ord)

(***************************************************************************)
(* The words of the two grammars and of the factory's table.               *)
(***************************************************************************)
W_day == <<"d","a","y">>
W_yesterday == <<"y","e","s","t","e","r","d","a","y">>
W_today == <<"t","o","d","a","y">>
W_week == <<"w","e","e","k">>
W_weekly == <<"w","e","e","k","l","y">>
W_last_week == <<"l","a","s","t","_","w","e","e","k">>
W_this_week == <<"t","h","i","s","_","w","e","e","k">>
W_month == <<"m","o","n","t","h">>
W_monthly == <<"m","o","n","t","h","l","y">>
W_last_month == <<"l","a","s","t","_","m","o","n","t","h">>
W_this_month == <<"t","h","i","s","_","m","o","n","t","h">>
W_year == <<"y","e","a","r">>
W_yearly == <<"y","e","a","r","l","y">>
W_last_year == <<"l","a","s","t","_","y","e","a","r">>
W_this_year == <<"t","h","i","s","_","y","e","a","r">>
W_ago == <<"a","g","o">>

(***************************************************************************)
(* DatePhraseHandler: the handler object and what a call on it does.       *)
(***************************************************************************)
\* DatePhraseHandler.__init__: cadence and time_bucket are the class's None
NewHandler(cls, date_value) ==
    [cls |-> cls, date_value |-> date_value, cadence |-> NoneV, time_bucket |-> NoneV]

NoHandler == NewHandler("none", NoneV)

\* a call that raised: the handler as the call left it, and the error
Raise(h, err) == [h |-> h, kind |-> err, cadence |-> NoneV, bucket |-> NoneV]

\* a call that returned (cadence, time_bucket)
Return(h) == [h |-> h, kind |-> "ok", cadence |-> h.cadence, bucket |-> h.time_bucket]

PastOneLiterals == {W_yesterday, W_last_week, W_last_month, W_last_year}

\* the zero-cadence literals without "today"
PastZeroLiteralsWithoutToday == {W_this_week, W_this_year, W_this_month}

PastZeroLiterals == {W_today, W_this_week, W_this_year, W_this_month}

\* the singular of the unit of "<N>_<unit>_ago"
Singularize(unit) == IF EndsWith(unit, "s") THEN RemoveChar(unit, "s") ELSE unit

\* PastDatePhraseHandler.phrase_to_date
PastPhraseToDate(h) ==
    IF h.date_value.t # "str" \/ ~HasLowerLetter(LowerStr(Strip(h.date_value.s)))
    THEN Raise(h, "TypeError")
    ELSE
    LET date_value == Strip(LowerStr(h.date_value.s))
        h1 == IF date_value \in PastOneLiterals
              THEN [h EXCEPT !.cadence = IntV(1), !.time_bucket = StrV(date_value)]
              ELSE h
        h2 == IF date_value \in PastZeroLiterals
              THEN [h1 EXCEPT !.cadence = IntV(0), !.time_bucket = StrV(date_value)]
              ELSE h1
        parts == Split(date_value, "_")
        ago == HasUnderscore(date_value) /\ h2.time_bucket.t = "none"
    IN IF ago /\ (Len(parts) # 3 \/ parts[3] # W_ago)
       THEN Raise(h2, "DateValueError")
       ELSE
       LET h3 == IF ago
                 THEN [h2 EXCEPT !.cadence = StrV(parts[1]),
                                 !.time_bucket = StrV(Singularize(parts[2]))]
                 ELSE h2
       IN IF h3.cadence.t = "none" \/ h3.time_bucket.t = "none"
          THEN Raise(h3, "CadenceTimeBucketError")
          ELSE IF ~PyInt(h3.cadence).ok
          THEN Raise(h3, "ValueError")
          ELSE Return([h3 EXCEPT !.cadence = IntV(PyInt(h3.cadence).val),
                                 !.time_bucket = StrV(Strip(h3.time_bucket.s))])

\* the interval literals with "week" among them
IntervalLiteralsWithWeek == {W_day, W_yearly, W_weekly, W_monthly, W_week}

IntervalLiterals == {W_day, W_yearly, W_weekly, W_monthly}

\* IntervalDatePhraseHandler.phrase_to_date
IntervalPhraseToDate(h) ==
    IF h.date_value.t # "str" \/ ~HasLowerLetter(LowerStr(h.date_value.s))
    THEN Raise(h, "TypeError")
    ELSE
    LET date_value == Strip(LowerStr(h.date_value.s))
        h1 == IF date_value \in IntervalLiterals
              THEN [h EXCEPT !.cadence = IntV(1), !.time_bucket = StrV(date_value)]
              ELSE h
        parts == Split(date_value, "_")
        two == Len(Split(ReplaceChar(h.date_value.s, " ", "_"), "_")) = 2
    IN IF Len(parts) > 2 /\ h1.time_bucket.t = "none"
       THEN Raise(h1, "TimeIntervalError")
       ELSE IF two /\ Len(parts) # 2
       THEN Raise(h1, "ValueError")
       ELSE
       LET h2 == IF two
                 THEN [h1 EXCEPT !.cadence = StrV(parts[1]),
                                 !.time_bucket = StrV(parts[2])]
                 ELSE h1
       IN IF h2.cadence.t = "none" \/ h2.time_bucket.t = "none"
          THEN Raise(h2, "CadenceTimeBucketError")
          ELSE IF ~PyInt(h2.cadence).ok
          THEN Raise(h2, "ValueError")
          ELSE Return([h2 EXCEPT !.cadence = IntV(PyInt(h2.cadence).val),
                                 !.time_bucket = StrV(Strip(h2.time_bucket.s))])

\* phrase_to_date of the handler's class
PhraseToDate(h) ==
    IF h.cls = "PastDatePhraseHandler" THEN PastPhraseToDate(h)
    ELSE IntervalPhraseToDate(h)

(***************************************************************************)
(* DateHandlerFactory.                                                     *)
(***************************************************************************)
\* time_bucket_mapping, in the order the dict is walked
TimeBucketMapping ==
    << [key |-> "day",   val |-> <<W_day, W_yesterday, W_today>>],
       [key |-> "week",  val |-> <<W_week, W_weekly, W_last_week, W_this_week>>],
       [key |-> "month", val |-> <<W_month, W_monthly, W_last_month, W_this_month>>],
       [key |-> "year",  val |-> <<W_year, W_yearly, W_last_year, W_this_year>>] >>

InList(x, list) == \E i \in 1..Len(list) : list[i] = x

\* the for loop over the mapping: the last key whose list holds time_bucket
RootBucket(time_bucket) ==
    LET hits == {i \in 1..Len(TimeBucketMapping) :
                    InList(time_bucket, TimeBucketMapping[i].val)}
    IN IF hits = {} THEN "None"
       ELSE TimeBucketMapping[CHOOSE i \in hits : \A j \in hits : j <= i].key

\* date_handlers with the classes of "month" and "year" exchanged
DateHandlersExchanged(root) ==
    CASE root = "day" -> "DayInterval"
      [] root = "week" -> "WeekInterval"
      [] root = "month" -> "YearInterval"
      [] root = "year" -> "MonthInterval"

\* date_handlers
DateHandlers(root) ==
    CASE root = "day" -> "DayInterval"
      [] root = "week" -> "WeekInterval"
      [] root = "month" -> "MonthInterval"
      [] root = "year" -> "YearInterval"

\* BaseDateInterval.__init__
NewStrategy(cls, time_bucket, cadence) ==
    [cls |-> cls, time_bucket |-> time_bucket, cadence |-> cadence]

NoStrategy == NewStrategy("None", <<>>, 0)

\* DateHandlerFactory.get_date_handler: a strategy, or TimeBucketError
GetDateHandler(time_bucket, cadence) ==
    IF RootBucket(time_bucket) = "None"
    THEN [kind |-> "TimeBucketError", strategy |-> NoStrategy]
    ELSE [kind |-> "ok",
          strategy |-> NewStrategy(DateHandlers(RootBucket(time_bucket)),
                                   time_bucket, cadence)]

(***************************************************************************)
(* dateutil.relativedelta, as far as the strategies use it: years, months, *)
(* weeks and days.  Every run of the model keeps its dates inside          *)
(* datetime's range (years 1..9999), so its range errors are not modelled. *)
(***************************************************************************)
Sign(n) == IF n < 0 THEN 0 - 1 ELSE 1

\* relativedelta(years=, months=, weeks=, days=): weeks are 7 days, and months
\* beyond 11 carry into years (relativedelta._fix)
RelDelta(years, months, weeks, days) ==
    LET s == Sign(months)
        carry == IF months * s > 11 THEN (months * s) \div 12 ELSE 0
        rest == IF months * s > 11 THEN (months * s) % 12 ELSE months * s
    IN [years |-> years + carry * s, months |-> rest * s, days |-> days + weeks * 7]

\* a negation that turns the days only
RdNegDaysOnly(rd) == [years |-> rd.years, months |-> rd.months, days |-> 0 - rd.days]

\* -relativedelta
RdNeg(rd) == [years |-> 0 - rd.years, months |-> 0 - rd.months, days |-> 0 - rd.days]

\* the day cut to the length of the month it lands in, and the days added
RdLand(year, month, day, length, days, tod) ==
    [ord |-> YmdToOrd(year, month, IF day < length THEN day ELSE length) + days,
     tod |-> tod]

\* the month moved by at most a year, carrying into the year
RdMove(year, m0, day, days, tod) ==
    IF m0 > 12
    THEN RdLand(year + 1, m0 - 12, day, DaysInMonth(year + 1, m0 - 12), days, tod)
    ELSE IF m0 < 1
    THEN RdLand(year - 1, m0 + 12, day, DaysInMonth(year - 1, m0 + 12), days, tod)
    ELSE RdLand(year, m0, day, DaysInMonth(year, m0), days, tod)

RdAddYmd(ymd, rd, tod) ==
    RdMove(ymd[1] + rd.years, ymd[2] + rd.months, ymd[3], rd.days, tod)

\* datetime + relativedelta: the year and the month move, the day is cut to the
\* length of the month it lands in, and then the days are added
RdAdd(dt, rd) == RdAddYmd(OrdToYmd(dt.ord), rd, dt.tod)

\* datetime - relativedelta (relativedelta.__rsub__)
RdSub(dt, rd) == RdAdd(dt, RdNeg(rd))

(***************************************************************************)
(* The interval strategies.                                                *)
(***************************************************************************)
YearAligned == {W_yearly, W_last_year, W_this_year}
MonthAligned == {W_monthly, W_month, W_last_month, W_this_month}
\* the aligned week buckets with "week" among them
WeekAlignedWithWeek == {W_weekly, W_last_week, W_this_week, W_week}
WeekAligned == {W_weekly, W_last_week, W_this_week}

\* datetime.replace(month=, day=): the year and the time of day are kept
ReplaceMonthDay(dt, month, day) ==
    [ord |-> YmdToOrd(OrdYear(dt.ord), month, day), tod |-> dt.tod]

\* datetime.replace(day=)
ReplaceDay(dt, day) == [ord |-> dt.ord - OrdToYmd(dt.ord)[3] + day, tod |-> dt.tod]

\* YearInterval.get_start_date
YearGetStartDate(s, start_date) ==
    IF s.time_bucket \in YearAligned
    THEN ReplaceMonthDay(start_date, 1, 1) ELSE start_date

\* MonthInterval.get_start_date
MonthGetStartDate(s, start_date) ==
    IF s.time_bucket \in MonthAligned
    THEN ReplaceDay(start_date, 1) ELSE start_date

\* get_start_date of a week that starts on Monday
WeekGetStartDateMonday(s, start_date) ==
    IF s.time_bucket \in {W_weekly, W_last_week, W_this_week}
    THEN PlusDays(start_date, 0 - Weekday(start_date))
    ELSE start_date

\* WeekInterval.get_start_date: strftime("%A") is "Sunday" when weekday() is 6
WeekGetStartDate(s, start_date) ==
    IF s.time_bucket \in WeekAligned
    THEN IF Weekday(start_date) = 6 THEN start_date
         ELSE PlusDays(start_date, 0 - (Weekday(start_date) + 1))
    ELSE start_date

\* DayInterval.get_start_date
DayGetStartDate(s, start_date) == start_date

\* handler.get_start_date(start_date), by the class of the strategy
GetStartDate(s, start_date) ==
    CASE s.cls = "YearInterval" -> YearGetStartDate(s, start_date)
      [] s.cls = "MonthInterval" -> MonthGetStartDate(s, start_date)
      [] s.cls = "WeekInterval" -> WeekGetStartDate(s, start_date)
      [] s.cls = "DayInterval" -> DayGetStartDate(s, start_date)

\* the relativedelta of cadence units of the strategy's class
UnitDelta(s, cadence) ==
    CASE s.cls = "YearInterval" -> RelDelta(cadence, 0, 0, 0)
      [] s.cls = "MonthInterval" -> RelDelta(0, cadence, 0, 0)
      [] s.cls = "WeekInterval" -> RelDelta(0, 0, cadence, 0)
      [] s.cls = "DayInterval" -> RelDelta(0, 0, 0, cadence)

\* handler.add_interval(date_value, cadence)
AddInterval(s, date_value, cadence) == RdAdd(date_value, UnitDelta(s, cadence))

\* handler.subtract_interval(date_value, cadence)
SubtractInterval(s, date_value, cadence) == RdSub(date_value, UnitDelta(s, cadence))

(***************************************************************************)
(* date_string_handler.                                                    *)
(***************************************************************************)
NoDate == [ord |-> 0, tod |-> 0]

\* \d{4}\-\d{2}\-\d{2} at position i of s
IsoAt(s, i) ==
    /\ i + 9 <= Len(s)
    /\ \A k \in {0, 1, 2, 3, 5, 6, 8, 9} : s[i + k] \in Digits
    /\ s[i + 4] = "-"
    /\ s[i + 7] = "-"

\* re.search(r"\d{4}\-\d{2}\-\d{2}", s)
IsoSearch(s) == \E i \in 1..Len(s) : IsoAt(s, i)

\* datetime.strptime(s, "%Y-%m-%d"): midnight of the date, or ValueError when s
\* is not exactly such a text or names no day of the calendar
Strptime(s) ==
    IF Len(s) = 10 /\ IsoAt(s, 1)
    THEN LET y == DigitsVal(SubSeq(s, 1, 4))
             m == DigitsVal(SubSeq(s, 6, 7))
             d == DigitsVal(SubSeq(s, 9, 10))
         IN IF y >= 1 /\ m \in 1..12 /\ d >= 1 /\ d <= DaysInMonth(y, m)
            THEN [kind |-> "ok", dt |-> MkDate(y, m, d, 0)]
            ELSE [kind |-> "ValueError", dt |-> NoDate]
    ELSE [kind |-> "ValueError", dt |-> NoDate]

\* str(x) of a value, for the values of the model: a str is itself, and no other
\* value's text holds a date
PyStr(x) == IF x.t = "str" THEN x.s ELSE <<>>

\* a resolver that takes cadence units from the clock's reading as it is
ResolvePhraseUnaligned(parsed, made, now) ==
    IF parsed.kind # "ok" THEN [kind |-> parsed.kind, dt |-> NoDate]
    ELSE IF made.kind # "ok" THEN [kind |-> made.kind, dt |-> NoDate]
    ELSE [kind |-> "ok",
          dt |-> SubtractInterval(made.strategy, now, parsed.cadence.i)]

\* lines 324-328: the clock's reading is aligned to the start of its bucket and
\* cadence units are taken from it
ResolvePhrase(parsed, made, now) ==
    IF parsed.kind # "ok" THEN [kind |-> parsed.kind, dt |-> NoDate]
    ELSE IF made.kind # "ok" THEN [kind |-> made.kind, dt |-> NoDate]
    ELSE [kind |-> "ok",
          dt |-> SubtractInterval(made.strategy,
                                  GetStartDate(made.strategy, now),
                                  parsed.cadence.i)]

\* lines 321-323: the strategy of what the phrase parsed to
ResolveParsed(parsed, now) ==
    ResolvePhrase(parsed, GetDateHandler(parsed.bucket.s, parsed.cadence.i), now)

\* date_string_handler(date_string), datetime.now() reading now
DateStringHandler(date_string, now) ==
    IF IsoSearch(Strip(PyStr(date_string)))
    THEN Strptime(Strip(PyStr(date_string)))
    ELSE ResolveParsed(
             PastPhraseToDate(NewHandler("PastDatePhraseHandler", date_string)),
             now)

(***************************************************************************)
(* date_range_iterator: a generator.  Its body runs from the call to the   *)
(* first yield on the first next(), and from one yield to the next (or to  *)
(* the end of the loop) on each later one.                                 *)
(***************************************************************************)
NoGen ==
    [pc |-> "none", err |-> "none", handler |-> NoStrategy, cadence |-> 0,
     startdate |-> NoDate, next_end |-> NoDate, enddate |-> NoDate]

\* the generator object the call returns: nothing of the body has run
NewGen == [NoGen EXCEPT !.pc = "created"]

\* an exception leaves the generator: it is finished
GenRaise(g, err) == [g EXCEPT !.pc = "raised", !.err = err]

\* lines 358-359: the start is aligned and the first bucket's end computed
GenAlign(g, interval_handler, cadence, startdate, enddate) ==
    [g EXCEPT !.pc = "running",
              !.handler = interval_handler,
              !.cadence = cadence,
              !.enddate = enddate,
              !.startdate = startdate,
              !.next_end = AddInterval(interval_handler, startdate, cadence)]

\* a body that does not look at what became of the end date
GenResolveStartOnly(g, interval_handler, cadence, startdate, enddate) ==
    IF startdate.kind # "ok" THEN GenRaise(g, startdate.kind)
    ELSE GenAlign(g, interval_handler, cadence,
                  GetStartDate(interval_handler, startdate.dt), enddate.dt)

\* lines 355-358: the two dates are resolved, each reading the clock for itself
GenResolve(g, interval_handler, cadence, startdate, enddate) ==
    IF startdate.kind # "ok" THEN GenRaise(g, startdate.kind)
    ELSE IF enddate.kind # "ok" THEN GenRaise(g, enddate.kind)
    ELSE GenAlign(g, interval_handler, cadence,
                  GetStartDate(interval_handler, startdate.dt), enddate.dt)

\* lines 352-356: the strategy of the interval is made before the dates are read
GenMake(g, c, parsed, made) ==
    IF parsed.kind # "ok" THEN GenRaise(g, parsed.kind)
    ELSE IF made.kind # "ok" THEN GenRaise(g, made.kind)
    ELSE GenResolve(g, made.strategy, parsed.cadence.i,
                    DateStringHandler(c.start_date, c.now1),
                    DateStringHandler(c.end_date, c.now2))

\* lines 350-354: the interval is parsed
GenParsed(g, c, parsed) ==
    GenMake(g, c, parsed, GetDateHandler(parsed.bucket.s, parsed.cadence.i))

\* lines 350-359: what the body does before its loop
GenSetup(g, c) ==
    GenParsed(g, c,
        IntervalPhraseToDate(NewHandler("IntervalDatePhraseHandler", c.interval)))

\* a body whose next bucket starts a day after this one ends
GenAdvanceSkipping(g) ==
    [g EXCEPT !.pc = "running",
              !.startdate = PlusDays(g.next_end, 1),
              !.next_end = AddInterval(g.handler, PlusDays(g.next_end, 1), g.cadence)]

\* lines 367-368: the next bucket starts where this one ends
GenAdvance(g) ==
    [g EXCEPT !.pc = "running",
              !.startdate = g.next_end,
              !.next_end = AddInterval(g.handler, g.next_end, g.cadence)]

\* a loop that goes on while startdate < enddate
GenLoopTestStrict(g) == ~DtLe(g.enddate, g.startdate)

\* line 360: the loop goes on while startdate <= enddate
GenLoopTest(g) == DtLe(g.startdate, g.enddate)

\* a pair whose end is next_end in both modes
GenPairUnadjusted(g, end_inclusive) ==
    [start |-> Strftime(g.startdate),
     end |-> Strftime(g.next_end),
     from |-> g.startdate,
     upto |-> g.next_end]

\* lines 361-366: the pair yielded, as the two formatted dates; from and upto
\* record the datetimes startdate and next_end they were made of
GenPair(g, end_inclusive) ==
    [start |-> Strftime(g.startdate),
     end |-> Strftime(IF end_inclusive THEN PlusDays(g.next_end, 0 - 1)
                      ELSE g.next_end),
     from |-> g.startdate,
     upto |-> g.next_end]

\* lines 360-366: at the loop's test the body yields and is suspended, or the
\* loop ends and with it the generator (StopIteration)
GenLoop(g) ==
    IF g.pc = "raised" THEN g
    ELSE IF GenLoopTest(g) THEN [g EXCEPT !.pc = "suspended"]
    ELSE [g EXCEPT !.pc = "exhausted"]

\* one next() on the generator: the body runs to its next yield, to the end of
\* the loop or to an exception
GenNext(g, c) ==
    GenLoop(IF g.pc = "created" THEN GenSetup(g, c) ELSE GenAdvance(g))

(***************************************************************************)
(* The inputs of the model.                                                *)
(***************************************************************************)
Under(a, b) == a \o <<"_">> \o b

IsoText(y1, y2, y3, y4, m1, m2, d1, d2) ==
    <<y1, y2, y3, y4, "-", m1, m2, "-", d1, d2>>

D_2022_11_09 == IsoText("2","0","2","2", "1","1", "0","9")
D_2022_11_14 == IsoText("2","0","2","2", "1","1", "1","4")
D_2022_11_15 == IsoText("2","0","2","2", "1","1", "1","5")
D_2022_11_16 == IsoText("2","0","2","2", "1","1", "1","6")
D_2022_12_05 == IsoText("2","0","2","2", "1","2", "0","5")

\* words of the tests and others like them
W_days == Append(W_day, "s")
W_weeks == Append(W_week, "s")
W_months == Append(W_month, "s")
W_years == Append(W_year, "s")
W_seasons == <<"s","e","a","s","o","n","s">>
W_before == <<"b","e","f","o","r","e">>
W_daily == <<"d","a","i","l","y">>
W_quarterly == <<"q","u","a","r","t","e","r","l","y">>
W_annually == <<"a","n","n","u","a","l","l","y">>
W_termly == <<"t","e","r","m","l","y">>
W_biannually == <<"b","i","a","n","n","u","a","l","l","y">>

Ago(n, unit) == Under(Under(n, unit), W_ago)

\* what datetime.now() may read: Tuesday 2022-11-15 at two times of the day
Nows == {MkDate(2022, 11, 15, 1), MkDate(2022, 11, 15, 2)}

StartInputs ==
    {StrV(D_2022_11_14), StrV(D_2022_11_09),
     StrV(W_today), StrV(W_this_month),
     StrV(<<"2","0","2","2","/","1","1","/","1","4">>),
     StrV(Under(<<"1">>, <<"W","e","e","k">>))}

EndInputs ==
    {StrV(D_2022_11_15), StrV(D_2022_11_14), StrV(D_2022_11_16),
     StrV(D_2022_12_05), StrV(W_today), StrV(W_daily)}

IntervalInputs ==
    {StrV(Under(<<"1">>, W_day)), StrV(Under(<<"1">>, W_week)),
     StrV(Under(<<"2">>, W_month)), StrV(Under(<<"2">>, W_year)),
     StrV(W_day), StrV(W_weekly), StrV(W_monthly), StrV(W_yearly),
     StrV(<<"W","e","e","k","l","y">>),
     StrV(Under(<<"0">>, W_day)), StrV(Under(<<"-","1">>, W_day)),
     StrV(Under(<<"2">>, W_days)),
     StrV(Under(<<"2">>, W_months)),
     StrV(Under(<<"x">>, W_day)),
     StrV(Under(Under(<<"2">>, W_month), W_before)),
     StrV(W_quarterly),
     StrV(<<"1">>)}

(***************************************************************************)
(* The specification of date_range_iterator: one call, made with           *)
(* end_inclusive True and with end_inclusive False on the same arguments   *)
(* and the same readings of the clock, and the next() requests on the two  *)
(* generators in any order.                                                *)
(***************************************************************************)
\* no phrase_to_date call has been made on the handler
NoOutcome == [before |-> NoHandler, res |-> Raise(NoHandler, "none")]

\* no get_date_handler call has been made
NoFactoryCall == [time_bucket |-> <<>>, cadence |-> 0, kind |-> "none"]

\* no call has been made on the strategy object
NoDateRes ==
    [op |-> "none", arg |-> NoDate, n |-> 0, res |-> NoDate, again |-> FALSE,
     origin |-> NoDate]

\* date_string_handler has not been called
NoResolved == [date_string |-> NoneV, now |-> NoDate, kind |-> "none", dt |-> NoDate]

NoCall ==
    [made |-> FALSE, start_date |-> NoneV, end_date |-> NoneV, interval |-> NoneV,
     now1 |-> NoDate, now2 |-> NoDate]

Init ==
    /\ handler = NoHandler
    /\ outcome = NoOutcome
    /\ factory = NoFactoryCall
    /\ strategy = NoStrategy
    /\ dateres = NoDateRes
    /\ call = NoCall
    /\ gen = [b \in BOOLEAN |-> NoGen]
    /\ out = [b \in BOOLEAN |-> <<>>]
    /\ resolved = NoResolved

\* date_range_iterator(start_date, end_date, interval, end_inclusive): the call
\* only makes the generator
Call(start_date, end_date, interval, now1, now2) ==
    /\ ~call.made
    /\ DtLe(now1, now2)
    /\ call' = [made |-> TRUE, start_date |-> start_date, end_date |-> end_date,
                interval |-> interval, now1 |-> now1, now2 |-> now2]
    /\ gen' = [b \in BOOLEAN |-> NewGen]
    /\ UNCHANGED <<handler, outcome, factory, strategy, dateres, out, resolved>>

\* next() on the generator made with end_inclusive = b
Resume(b) ==
    /\ gen[b].pc \in {"created", "suspended"}
    /\ Len(out[b]) < MaxPairs
    /\ gen' = [gen EXCEPT ![b] = GenNext(gen[b], call)]
    /\ out' = [out EXCEPT ![b] = IF gen'[b].pc = "suspended"
                                 THEN Append(@, GenPair(gen'[b], b)) ELSE @]
    /\ UNCHANGED <<handler, outcome, factory, strategy, dateres, call, resolved>>

Next ==
    \/ \E s \in StartInputs, e \in EndInputs, i \in IntervalInputs,
          n1 \in Nows, n2 \in Nows : Call(s, e, i, n1, n2)
    \/ \E b \in BOOLEAN : Resume(b)

Spec == Init /\ [][Next]_vars

(***************************************************************************)
(* The specification of the phrase handlers: a handler of either class is  *)
(* made of a value, and phrase_to_date is called on it, once or again.     *)
(***************************************************************************)
\* the date phrases of the tests and of the docstrings, and others like them
PastPhrases ==
    {W_yesterday, W_last_week, W_last_month, W_last_year,
     W_today, W_this_week, W_this_month, W_this_year,
     <<" ","T","o","d","a","y"," ">>,
     <<"L","a","s","t","_","W","e","e","k">>,
     Ago(<<"1">>, W_week), Ago(<<"2">>, W_years), Ago(<<"2">>, W_weeks),
     Ago(<<"2">>, W_days), Ago(<<"1","2">>, W_months),
     Ago(<<"1">>, W_seasons), Ago(<<"0">>, W_days), Ago(<<"-","1">>, W_days),
     Ago(<<"x">>, W_days), Ago(<<"1">>, <<"s">>),
     Under(Under(<<"2">>, W_years), W_before), Under(<<"1">>, W_week),
     Under(Ago(<<"2">>, W_days), W_ago),
     W_daily, W_ago, <<"1">>, <<>>, D_2022_11_14}

\* the interval phrases of the tests and of the docstrings, and others like them
IntervalPhrases ==
    {W_day, W_weekly, W_monthly, W_yearly,
     <<"W","e","e","k","l","y">>, <<" ","d","a","y">>, <<"d","a","y"," ">>,
     Under(<<"1">>, W_day), Under(<<"1">>, W_week), Under(<<"2">>, W_month),
     Under(<<"2">>, W_year), Under(<<"2">>, W_months), Under(<<"1","2">>, W_month),
     Under(<<"0">>, W_day), Under(<<"-","1">>, W_day), Under(<<"x">>, W_day),
     <<"2"," ">> \o W_month, <<" ">> \o Under(<<"1">>, W_day),
     Under(Under(<<"2">>, W_month), W_before),
     W_quarterly, W_weeks, W_week, <<" ">> \o W_quarterly}

\* the values a handler is made of: the phrases, and values that are no str
PhraseInputs ==
    {StrV(p) : p \in PastPhrases \cup IntervalPhrases} \cup {NoneV, IntV(1)}

HandlerClasses == {"PastDatePhraseHandler", "IntervalDatePhraseHandler"}

\* cls(date_value)
NewPhraseHandler(cls, date_value) ==
    /\ handler' = NewHandler(cls, date_value)
    /\ outcome' = NoOutcome
    /\ UNCHANGED <<factory, strategy, dateres, call, gen, out, resolved>>

\* handler.phrase_to_date(): the handler is left as the call left it
PhraseToDateCall ==
    /\ handler.cls # "none"
    /\ outcome' = [before |-> handler, res |-> PhraseToDate(handler)]
    /\ handler' = PhraseToDate(handler).h
    /\ UNCHANGED <<factory, strategy, dateres, call, gen, out, resolved>>

NextParse ==
    \/ \E cls \in HandlerClasses, v \in PhraseInputs : NewPhraseHandler(cls, v)
    \/ PhraseToDateCall

SpecParse == Init /\ [][NextParse]_vars

(***************************************************************************)
(* The specification of the factory and of the strategies: a strategy is   *)
(* asked of the factory and get_start_date is called on it, on a date or   *)
(* on the date it has just returned.                                       *)
(***************************************************************************)
\* the buckets the factory is asked for: those of its table, those of the tests
\* that it refuses, and others like them
BucketInputs ==
    {W_day, W_yesterday, W_today, W_week, W_weekly, W_last_week, W_this_week,
     W_month, W_monthly, W_last_month, W_this_month,
     W_year, W_yearly, W_last_year, W_this_year,
     W_annually, W_quarterly, W_daily, W_termly, W_biannually,
     W_weeks, W_days, <<"W","e","e","k","l","y">>, <<>>}

CadenceInputs == (0 - 1)..MaxCadence

\* two weeks of November 2022, the ends of 2022 and a leap day, at midnight and
\* later in the day
DateInputs ==
    {[ord |-> o, tod |-> t] :
        o \in (YmdToOrd(2022, 11, 14)..YmdToOrd(2022, 11, 27))
              \cup {YmdToOrd(2022, 1, 1), YmdToOrd(2022, 12, 31),
                    YmdToOrd(2023, 1, 1), YmdToOrd(2024, 2, 29)},
        t \in {0, 1}}

\* the dates add_interval and subtract_interval are called with: the dates of
\* the tests, the last days of months, a leap day and the day before it
IntervalDates ==
    {MkDate(2022, 11, 20, 0), MkDate(2022, 11, 21, 1), MkDate(2022, 12, 31, 0),
     MkDate(2022, 10, 31, 0), MkDate(2023, 1, 29, 0), MkDate(2023, 1, 30, 0),
     MkDate(2023, 1, 31, 1), MkDate(2024, 2, 28, 0), MkDate(2024, 2, 29, 0),
     MkDate(2024, 2, 29, 1)}

\* the cadences add_interval and subtract_interval are called with
IntervalCadences == 0..MaxCadence

\* DateHandlerFactory().get_date_handler(time_bucket=, cadence=)
GetDateHandlerCall(time_bucket, cadence) ==
    /\ factory' = [time_bucket |-> time_bucket, cadence |-> cadence,
                   kind |-> GetDateHandler(time_bucket, cadence).kind]
    /\ strategy' = GetDateHandler(time_bucket, cadence).strategy
    /\ dateres' = NoDateRes
    /\ UNCHANGED <<handler, outcome, call, gen, out, resolved>>

\* strategy.get_start_date(start_date=d)
GetStartDateCall(d) ==
    /\ strategy.cls # "None"
    /\ dateres' = [op |-> "get_start_date", arg |-> d, n |-> 0,
                   res |-> GetStartDate(strategy, d), again |-> FALSE,
                   origin |-> NoDate]
    /\ UNCHANGED <<handler, outcome, factory, strategy, call, gen, out, resolved>>

\* strategy.get_start_date(start_date=) of the date the last call returned
GetStartDateAgain ==
    /\ dateres.op = "get_start_date"
    /\ dateres' = [op |-> "get_start_date", arg |-> dateres.res, n |-> 0,
                   res |-> GetStartDate(strategy, dateres.res), again |-> TRUE,
                   origin |-> dateres.arg]
    /\ UNCHANGED <<handler, outcome, factory, strategy, call, gen, out, resolved>>

\* strategy.add_interval(date_value=d, cadence=n)
AddIntervalCall(d, n) ==
    /\ strategy.cls # "None"
    /\ dateres' = [op |-> "add_interval", arg |-> d, n |-> n,
                   res |-> AddInterval(strategy, d, n), again |-> FALSE,
                   origin |-> NoDate]
    /\ UNCHANGED <<handler, outcome, factory, strategy, call, gen, out, resolved>>

\* strategy.subtract_interval(date_value=d, cadence=n)
SubtractIntervalCall(d, n) ==
    /\ strategy.cls # "None"
    /\ dateres' = [op |-> "subtract_interval", arg |-> d, n |-> n,
                   res |-> SubtractInterval(strategy, d, n), again |-> FALSE,
                   origin |-> NoDate]
    /\ UNCHANGED <<handler, outcome, factory, strategy, call, gen, out, resolved>>

\* strategy.subtract_interval(date_value=, cadence=) of the date add_interval
\* returned, with add_interval's cadence
SubtractIntervalBack ==
    /\ dateres.op = "add_interval"
    /\ dateres' = [op |-> "subtract_interval", arg |-> dateres.res, n |-> dateres.n,
                   res |-> SubtractInterval(strategy, dateres.res, dateres.n),
                   again |-> TRUE, origin |-> dateres.arg]
    /\ UNCHANGED <<handler, outcome, factory, strategy, call, gen, out, resolved>>

NextStrategy ==
    \/ \E b \in BucketInputs, n \in CadenceInputs : GetDateHandlerCall(b, n)
    \/ \E d \in DateInputs : GetStartDateCall(d)
    \/ GetStartDateAgain

SpecStrategy == Init /\ [][NextStrategy]_vars

(***************************************************************************)
(* The strategies' arithmetic: a strategy of each class is made and is     *)
(* asked to add and to subtract intervals.                                 *)
(***************************************************************************)
\* a bucket of each class, and one that aligns
IntervalBuckets == {W_day, W_week, W_month, W_year, W_monthly, W_last_year}

NextInterval ==
    \/ \E b \in IntervalBuckets, n \in 1..MaxCadence : GetDateHandlerCall(b, n)
    \/ \E d \in IntervalDates, n \in IntervalCadences : AddIntervalCall(d, n)
    \/ \E d \in IntervalDates, n \in IntervalCadences : SubtractIntervalCall(d, n)
    \/ SubtractIntervalBack

SpecInterval == Init /\ [][NextInterval]_vars

(***************************************************************************)
(* date_string_handler called on date strings, the clock reading any of    *)
(* some moments.                                                           *)
(***************************************************************************)
D_2022_02_30 == IsoText("2","0","2","2", "0","2", "3","0")

\* the date strings of the tests and of the docstring, and others like them
ResolveInputs ==
    {StrV(p) : p \in
        {D_2022_11_14, D_2022_12_05, D_2022_02_30,
         <<" ">> \o D_2022_11_14 \o <<" ">>, D_2022_11_14 \o <<"T">>,
         W_today, W_yesterday, W_this_week, W_this_month, W_this_year,
         W_last_week, W_last_month, W_last_year,
         <<" ","T","o","d","a","y"," ">>,
         <<"L","a","s","t","_","W","e","e","k">>,
         Ago(<<"2">>, W_days), Ago(<<"1">>, W_week), Ago(<<"2">>, W_months),
         Ago(<<"2">>, W_years),
         <<"2","0","2","2","/","1","1","/","1","4">>,
         <<"1","_","W","e","e","k">>, W_daily}}
    \cup {NoneV}

\* what datetime.now() may read: the days of a week from Monday 2022-11-14 to
\* Sunday 2022-11-20, a January 1, a leap day and the last day of a March, at
\* midnight and later in the day
ClockReadings ==
    {[ord |-> o, tod |-> t] :
        o \in (YmdToOrd(2022, 11, 14)..YmdToOrd(2022, 11, 20))
              \cup {YmdToOrd(2023, 1, 1), YmdToOrd(2024, 2, 29),
                    YmdToOrd(2023, 3, 31)},
        t \in {0, 1}}

\* date_string_handler(date_string), datetime.now() reading now
DateStringHandlerCall(date_string, now) ==
    /\ resolved' = [date_string |-> date_string, now |-> now,
                    kind |-> DateStringHandler(date_string, now).kind,
                    dt |-> DateStringHandler(date_string, now).dt]
    /\ UNCHANGED <<handler, outcome, factory, strategy, dateres, call, gen, out>>

NextResolve ==
    \E s \in ResolveInputs, now \in ClockReadings : DateStringHandlerCall(s, now)

SpecResolve == Init /\ [][NextResolve]_vars

(***************************************************************************)
(* Claims about date_range_iterator.                                       *)
(***************************************************************************)
\* a < b on datetimes
DtLt(a, b) == DtLe(a, b) /\ a # b

\* the start date of the call as date_string_handler resolves it
ResolvedStart == DateStringHandler(call.start_date, call.now1).dt

\* the interval of the call is of the form "<N>_<unit>"
MultiplierForm == HasUnderscore(PyStr(call.interval))

\* C1: in both end_inclusive modes the start of every emitted bucket after the
\* first is the unadjusted (exclusive) end of the bucket emitted before it, and
\* the starts are strictly increasing: no gap and no overlap, for every interval
\* spec the grammar and the factory accept.
C1_NoGapNoOverlap ==
    \A b \in BOOLEAN : \A i \in 2..Len(out[b]) :
        /\ out[b][i].from = out[b][i - 1].upto
        /\ out[b][i].start = Strftime(out[b][i - 1].upto)
        /\ DtLt(out[b][i - 1].from, out[b][i].from)

\* C2: whatever interval spec the grammar and the factory accept, the sequence of
\* pairs is finite.  The generator's next pair is a function of its startdate and
\* next_end alone, so one that comes back to a startdate and next_end it has had
\* goes on for ever: a generator that stops emits no two pairs from the same
\* startdate and next_end.
C2_FiniteSequence ==
    \A b \in BOOLEAN : \A i, j \in 1..Len(out[b]) :
        i < j => <<out[b][i].from, out[b][i].upto>> # <<out[b][j].from, out[b][j].upto>>

\* the whole days of b - a (timedelta.days)
WholeDays(a, b) == (b.ord - a.ord) - (IF b.tod < a.tod THEN 1 ELSE 0)

\* C3: a pair is emitted exactly while the bucket's start is on or before the
\* resolved end: every emitted start is <= end, a first bucket that starts on or
\* before end is emitted, an exhausted generator's next start (the last
\* unadjusted end) is after end, and with a cadence of one day and start <= end
\* an exhausted generator has emitted (end - start in days) + 1 pairs.
C3_EmitsWhileStartLeEnd ==
    \A b \in BOOLEAN :
        /\ \A i \in 1..Len(out[b]) : DtLe(out[b][i].from, gen[b].enddate)
        /\ gen[b].pc = "exhausted" =>
              /\ ~DtLe(gen[b].startdate, gen[b].enddate)
              /\ out[b] # <<>> => gen[b].startdate = out[b][Len(out[b])].upto
              /\ out[b] = <<>> =>
                    gen[b].startdate = GetStartDate(gen[b].handler, ResolvedStart)
              /\ ( /\ gen[b].handler.cls = "DayInterval"
                   /\ gen[b].cadence = 1
                   /\ DtLe(ResolvedStart, gen[b].enddate) )
                 => Len(out[b]) = WholeDays(ResolvedStart, gen[b].enddate) + 1

\* C3's case: 2022-11-14..2022-11-15 by "1_day" has given its two pairs and ended
C3_Witness ==
    /\ call.start_date = StrV(D_2022_11_14)
    /\ call.end_date = StrV(D_2022_11_15)
    /\ call.interval = StrV(Under(<<"1">>, W_day))
    /\ gen[TRUE].pc = "exhausted"
    /\ Len(out[TRUE]) = 2
    /\ out[TRUE][1].start = <<2022, 11, 14>> /\ out[TRUE][1].end = <<2022, 11, 14>>
    /\ out[TRUE][2].start = <<2022, 11, 15>> /\ out[TRUE][2].end = <<2022, 11, 15>>

\* the ordinal of a formatted date
TextOrd(ymd) == YmdToOrd(ymd[1], ymd[2], ymd[3])

\* C4: on the same arguments end_inclusive=True and end_inclusive=False emit the
\* same starts, the same number of pairs once both have finished, the exclusive
\* end is start + cadence units and the inclusive end is the day before it.
C4_InclusiveIsExclusiveMinusOneDay ==
    /\ \A i \in 1..Len(out[FALSE]) :
          out[FALSE][i].end =
              Strftime(AddInterval(gen[FALSE].handler, out[FALSE][i].from,
                                   gen[FALSE].cadence))
    /\ \A i \in 1..Len(out[TRUE]) :
          TextOrd(out[TRUE][i].end) =
              AddInterval(gen[TRUE].handler, out[TRUE][i].from,
                          gen[TRUE].cadence).ord - 1
    /\ \A i \in 1..Len(out[TRUE]) : i <= Len(out[FALSE]) =>
          /\ out[TRUE][i].start = out[FALSE][i].start
          /\ TextOrd(out[TRUE][i].end) = TextOrd(out[FALSE][i].end) - 1
    /\ (gen[TRUE].pc \in {"exhausted", "raised"}
            /\ gen[FALSE].pc \in {"exhausted", "raised"})
       => /\ Len(out[TRUE]) = Len(out[FALSE])
          /\ gen[TRUE].pc = gen[FALSE].pc
          /\ gen[TRUE].err = gen[FALSE].err

\* C4's case: both generators of a monthly call have emitted their two buckets,
\* 2022-11-01..2022-12-01 (inclusive: ..2022-11-30) and the one after it
C4_Witness ==
    /\ gen[TRUE].pc = "exhausted" /\ gen[FALSE].pc = "exhausted"
    /\ Len(out[TRUE]) = 2 /\ Len(out[FALSE]) = 2
    /\ out[FALSE][1].start = <<2022, 11, 1>> /\ out[FALSE][1].end = <<2022, 12, 1>>
    /\ out[TRUE][1].start = <<2022, 11, 1>> /\ out[TRUE][1].end = <<2022, 11, 30>>

\* C5 as stated: with an interval "<N>_<unit>", unit one of day, week, month and
\* year, the first emitted start is the resolved start date itself.
C5_MultiplierNeverAligns ==
    \A b \in BOOLEAN :
        (MultiplierForm /\ out[b] # <<>>
            /\ gen[b].handler.time_bucket \in {W_day, W_week, W_month, W_year})
        => /\ out[b][1].from = ResolvedStart
           /\ out[b][1].start = Strftime(ResolvedStart)

\* C5 amended: with "<N>_day", "<N>_week" and "<N>_year" the first emitted start
\* is the resolved start date itself; with "<N>_month" it is day 1 of the resolved
\* start's month, as with monthly; weekly starts on the Sunday on or before the
\* resolved start and yearly on January 1 of its year.
C5_MultiplierAlignsOnlyMonth ==
    \A b \in BOOLEAN : out[b] # <<>> =>
        LET first == out[b][1].start
            rs == Strftime(ResolvedStart)
            bucket == gen[b].handler.time_bucket
        IN /\ (MultiplierForm /\ bucket \in {W_day, W_week, W_year})
                => first = rs /\ out[b][1].from = ResolvedStart
           /\ (MultiplierForm /\ bucket = W_month) => first = <<rs[1], rs[2], 1>>
           /\ bucket = W_monthly => first = <<rs[1], rs[2], 1>>
           /\ bucket = W_yearly => first = <<rs[1], 1, 1>>
           /\ bucket = W_weekly =>
                 /\ TextOrd(first) % 7 = 0
                 /\ TextOrd(first) <= TextOrd(rs)
                 /\ TextOrd(rs) - TextOrd(first) <= 6

\* C5's case: "2_month" from 2022-11-09 to 2022-11-15 has given its one bucket,
\* which starts on day 1 of November and not on the 9th
C5_Witness ==
    /\ call.start_date = StrV(D_2022_11_09)
    /\ call.end_date = StrV(D_2022_11_15)
    /\ call.interval = StrV(Under(<<"2">>, W_month))
    /\ gen[FALSE].pc = "exhausted"
    /\ Len(out[FALSE]) = 1
    /\ out[FALSE][1].start = <<2022, 11, 1>>
    /\ out[FALSE][1].end = <<2023, 1, 1>>

(***************************************************************************)
(* Claims about the strategies and the factory.                            *)
(***************************************************************************)
\* C6: when the bucket keyword triggers alignment get_start_date(d) is the first
\* day of the bucket d is in, never later than d: for weekly, this_week and
\* last_week d itself on a Sunday and else the Sunday before it, at most 6 days
\* back; for monthly, month, this_month and last_month day 1 of d's month; for
\* yearly, this_year and last_year January 1 of d's year; a DayInterval returns
\* d; and get_start_date of a date get_start_date returned is that date.
C6_GetStartDateIsBucketStart ==
    dateres.op = "get_start_date" =>
        LET d == dateres.arg
            r == dateres.res
            dy == OrdToYmd(d.ord)
            ry == OrdToYmd(r.ord)
            bucket == strategy.time_bucket
        IN /\ DtLe(r, d)
           /\ r.tod = d.tod
           /\ (strategy.cls = "WeekInterval"
                 /\ bucket \in {W_weekly, W_this_week, W_last_week})
              => /\ r.ord % 7 = 0
                 /\ d.ord - r.ord \in 0..6
                 /\ d.ord % 7 = 0 => r = d
           /\ (strategy.cls = "MonthInterval"
                 /\ bucket \in {W_monthly, W_month, W_this_month, W_last_month})
              => ry = <<dy[1], dy[2], 1>>
           /\ (strategy.cls = "YearInterval"
                 /\ bucket \in {W_yearly, W_this_year, W_last_year})
              => ry = <<dy[1], 1, 1>>
           /\ strategy.cls = "DayInterval" => r = d
           /\ dateres.again => r = d

\* C6's case: a weekly WeekInterval has been asked for the start of Monday
\* 2022-11-21 and has returned Sunday 2022-11-20
C6_Witness ==
    /\ strategy.cls = "WeekInterval"
    /\ strategy.time_bucket = W_weekly
    /\ dateres.op = "get_start_date"
    /\ dateres.arg = MkDate(2022, 11, 21, 0)
    /\ dateres.res = MkDate(2022, 11, 20, 0)

\* the class C7 names for a bucket, "None" for every other bucket
ClaimedClass(b) ==
    CASE b \in {W_day, W_yesterday, W_today} -> "DayInterval"
      [] b \in {W_week, W_weekly, W_last_week, W_this_week} -> "WeekInterval"
      [] b \in {W_month, W_monthly, W_last_month, W_this_month} -> "MonthInterval"
      [] b \in {W_year, W_yearly, W_last_year, W_this_year} -> "YearInterval"
      [] OTHER -> "None"

\* C7: get_date_handler returns a DayInterval for day, yesterday and today, a
\* WeekInterval for week, weekly, last_week and this_week, a MonthInterval for
\* month, monthly, last_month and this_month and a YearInterval for year, yearly,
\* last_year and this_year, the strategy holding the bucket as it was given and
\* the cadence given; for every other bucket it raises TimeBucketError and
\* returns no strategy.
C7_FactoryReturnsMatchingStrategy ==
    factory.kind # "none" =>
        IF ClaimedClass(factory.time_bucket) = "None"
        THEN factory.kind = "TimeBucketError" /\ strategy = NoStrategy
        ELSE /\ factory.kind = "ok"
             /\ strategy = [cls |-> ClaimedClass(factory.time_bucket),
                            time_bucket |-> factory.time_bucket,
                            cadence |-> factory.cadence]

\* C7's case: the factory has been asked for "last_year" with cadence 2 and has
\* returned a YearInterval
C7_Witness ==
    /\ factory.kind = "ok"
    /\ factory.time_bucket = W_last_year
    /\ factory.cadence = 2
    /\ strategy.cls = "YearInterval"

(***************************************************************************)
(* Claims about the phrase handlers.                                       *)
(***************************************************************************)
\* the last phrase_to_date call was made on a handler of class cls
CalledOn(cls) == outcome.res.kind # "none" /\ outcome.before.cls = cls

\* the text of the call's date_value, trimmed and in lower case
CalledText == Strip(LowerStr(PyStr(outcome.before.date_value)))

\* a unit without its trailing "s"
WithoutTrailingS(unit) ==
    IF EndsWith(unit, "s") THEN SubSeq(unit, 1, Len(unit) - 1) ELSE unit

\* C8: on the input trimmed and in lower case PastDatePhraseHandler.phrase_to_date
\* returns (1, literal) for yesterday, last_week, last_month and last_year,
\* (0, literal) for today, this_week, this_month and this_year, and for
\* "<N>_<unit>_ago" the int N and the unit without its trailing "s"; cadence and
\* time_bucket are None before the first call and hold what a call returned.
C8_PastPhraseResult ==
    /\ (handler.cls # "none" /\ outcome = NoOutcome)
       => handler.cadence = NoneV /\ handler.time_bucket = NoneV
    /\ CalledOn("PastDatePhraseHandler") =>
        LET res == outcome.res
            parts == Split(CalledText, "_")
        IN /\ CalledText \in {W_yesterday, W_last_week, W_last_month, W_last_year}
              => res.kind = "ok" /\ res.cadence = IntV(1)
                 /\ res.bucket = StrV(CalledText)
           /\ CalledText \in {W_today, W_this_week, W_this_month, W_this_year}
              => res.kind = "ok" /\ res.cadence = IntV(0)
                 /\ res.bucket = StrV(CalledText)
           /\ (Len(parts) = 3 /\ parts[3] = W_ago /\ PyInt(StrV(parts[1])).ok)
              => /\ res.kind = "ok"
                 /\ res.cadence = IntV(PyInt(StrV(parts[1])).val)
                 /\ res.bucket = StrV(WithoutTrailingS(parts[2]))
           /\ res.kind = "ok"
              => handler.cadence = res.cadence /\ handler.time_bucket = res.bucket

\* the date_value of the call is a str with a letter in it
CalledWithLetters ==
    outcome.before.date_value.t = "str" /\ HasLowerLetter(CalledText)

CalledPlain ==
    \A i \in 1..Len(PyStr(outcome.before.date_value)) :
        PyStr(outcome.before.date_value)[i] \notin Whitespace

ResolvedEnd == DateStringHandler(call.end_date, call.now2).dt

\* the start date and the end date of the call both resolve
DatesResolve ==
    /\ DateStringHandler(call.start_date, call.now1).kind = "ok"
    /\ DateStringHandler(call.end_date, call.now2).kind = "ok"

\* the interval of the call, in lower case, is day, weekly, monthly or yearly, or
\* "<N>_<unit>" with N a positive integer and unit one of day, week, weeks, month,
\* months, year and years
ListedInterval ==
    LET text == LowerStr(PyStr(call.interval))
        parts == Split(text, "_")
    IN \/ text \in {W_day, W_weekly, W_monthly, W_yearly}
       \/ /\ Len(parts) = 2
          /\ AllDigits(parts[1])
          /\ DigitsVal(parts[1]) >= 1
          /\ parts[2] \in {W_day, W_week, W_weeks, W_month, W_months, W_year, W_years}

\* C11: for every interval spec, in any case, of the form "<N>_<unit>" with N a
\* positive integer and unit one of day, week, weeks, month, months, year and
\* years, and for day, weekly, monthly and yearly, date_range_iterator raises no
\* error and emits buckets: a generator that has been asked for a pair has not
\* raised, and has emitted one when the resolved start is on or before the end.
C11_AcceptsListedIntervals ==
    \A b \in BOOLEAN :
        (gen[b].pc \notin {"none", "created"} /\ ListedInterval /\ DatesResolve)
        => /\ gen[b].pc # "raised"
           /\ DtLe(ResolvedStart, ResolvedEnd) => out[b] # <<>>

(***************************************************************************)
(* Claims about the cadence and the bucket a phrase handler returns.       *)
(***************************************************************************)
\* C12: the cadence phrase_to_date returns is strictly positive, except that it is
\* 0 exactly for the literals today, this_week, this_month and this_year of the
\* past grammar; no input that is accepted ("0_day", "-1_day", "0_days_ago")
\* yields a zero or negative cadence otherwise.
C12_CadencePositive ==
    outcome.res.kind = "ok" =>
        IF /\ CalledOn("PastDatePhraseHandler")
           /\ CalledText \in {W_today, W_this_week, W_this_month, W_this_year}
        THEN outcome.res.cadence = IntV(0)
        ELSE outcome.res.cadence.t = "int" /\ outcome.res.cadence.i >= 1

\* C13: whenever phrase_to_date of either grammar returns, the bucket it returns
\* is a spelling DateHandlerFactory.get_date_handler accepts, so that the
\* get_date_handler call that follows a successful parse raises no
\* TimeBucketError.
C13_ReturnedBucketIsAccepted ==
    outcome.res.kind = "ok" =>
        GetDateHandler(outcome.res.bucket.s, outcome.res.cadence.i).kind = "ok"

\* C17: IntervalDatePhraseHandler takes a space as it takes an underscore, as the
\* separator of the number and the unit: a first call on "<N> <unit>" or
\* "<N>_<unit>" returns the int N and the unit, so "2 month" returns (2, "month").
C17_SpaceSeparatesLikeUnderscore ==
    (CalledOn("IntervalDatePhraseHandler") /\ outcome.before.cadence = NoneV
     /\ outcome.before.date_value.t = "str")
    => LET text == LowerStr(PyStr(outcome.before.date_value))
           parts == Split(ReplaceChar(text, " ", "_"), "_")
       IN (Len(parts) = 2 /\ PyInt(StrV(parts[1])).ok /\ HasLowerLetter(parts[2]))
          => /\ outcome.res.kind = "ok"
             /\ outcome.res.cadence = IntV(PyInt(StrV(parts[1])).val)
             /\ outcome.res.bucket = StrV(parts[2])

(***************************************************************************)
(* Claims about the errors and the coverage of date_range_iterator.        *)
(***************************************************************************)
\* the interval of the call as the interval grammar parses it
ParsedInterval ==
    IntervalPhraseToDate(NewHandler("IntervalDatePhraseHandler", call.interval))

\* the interval, the start or the end of the call is rejected
ArgumentRejected ==
    \/ ParsedInterval.kind # "ok"
    \/ GetDateHandler(ParsedInterval.bucket.s, ParsedInterval.cadence.i).kind # "ok"
    \/ ~DatesResolve

\* C18: an invalid argument of date_range_iterator never produces partial
\* results.  The call itself raises nothing; when the interval, the start or the
\* end is rejected the first request for a pair raises, and a generator that has
\* raised has emitted no pair, so that once a pair is emitted no such error
\* occurs.
C18_NoPartialResults ==
    \A b \in BOOLEAN :
        /\ gen[b].pc = "created" => gen[b].err = "none" /\ out[b] = <<>>
        /\ (gen[b].pc \notin {"none", "created"} /\ ArgumentRejected)
           => gen[b].pc = "raised"
        /\ gen[b].pc = "raised"
           => /\ out[b] = <<>>
              /\ ArgumentRejected
              /\ gen[b].err \in {"TypeError", "TimeIntervalError", "TimeBucketError",
                                 "CadenceTimeBucketError", "DateValueError",
                                 "ValueError"}

\* C18's case: the interval and the start are accepted and the end is not, and
\* the first request has raised the end's error with no pair emitted
C18_Witness ==
    /\ call.made
    /\ ParsedInterval.kind = "ok"
    /\ DateStringHandler(call.start_date, call.now1).kind = "ok"
    /\ DateStringHandler(call.end_date, call.now2).kind = "CadenceTimeBucketError"
    /\ gen[TRUE].pc = "raised"
    /\ gen[TRUE].err = "CadenceTimeBucketError"
    /\ out[TRUE] = <<>>

\* the start date of the call, resolved and then aligned by the generator's
\* strategy
AlignedStart(b) == GetStartDate(gen[b].handler, ResolvedStart)

\* the moments from the resolved start to the resolved end, both included
MomentsOfRange ==
    {t \in [ord : ResolvedStart.ord .. ResolvedEnd.ord, tod : 0..2] :
        DtLe(ResolvedStart, t) /\ DtLe(t, ResolvedEnd)}

\* the emitted buckets [from, upto) that hold the moment t
BucketsHolding(b, t) ==
    {i \in 1..Len(out[b]) : DtLe(out[b][i].from, t) /\ DtLt(t, out[b][i].upto)}

\* the generator has run with a cadence of at least 1 and has not raised
RanWithPositiveCadence(b) ==
    gen[b].pc \in {"suspended", "exhausted"} /\ gen[b].cadence >= 1

\* the first emitted start is on or before the resolved start, and when the
\* resolved start is on or before the resolved end, a generator that has ended
\* has emitted exactly one bucket for every moment from start to end
CoversTheRange(b) ==
    /\ out[b] # <<>> => DtLe(out[b][1].from, ResolvedStart)
    /\ (gen[b].pc = "exhausted" /\ DtLe(ResolvedStart, ResolvedEnd))
       => \A t \in MomentsOfRange : Cardinality(BucketsHolding(b, t)) = 1

\* C19 as stated: for a cadence of at least 1 the first emitted start is on or
\* before the resolved start, so that when the resolved start is on or before the
\* resolved end everything from start to end lies in exactly one emitted
\* half-open bucket; and when the resolved start is after the resolved end no
\* pair is emitted at all, also when alignment moves the start backward.
C19_NothingEmittedWhenStartAfterEnd ==
    \A b \in BOOLEAN :
        RanWithPositiveCadence(b)
        => /\ CoversTheRange(b)
           /\ DtLt(ResolvedEnd, ResolvedStart) => out[b] = <<>>

\* C19 amended: for a cadence of at least 1 the first emitted start is on or
\* before the resolved start, so that when the resolved start is on or before the
\* resolved end everything from start to end lies in exactly one emitted
\* half-open bucket; no pair is emitted exactly when the aligned start is after
\* the resolved end, so a resolved start after the end still gives pairs when
\* alignment moves it to the end or before it.
C19_NothingEmittedWhenAlignedStartAfterEnd ==
    \A b \in BOOLEAN :
        RanWithPositiveCadence(b)
        => /\ CoversTheRange(b)
           /\ out[b] = <<>> <=> DtLt(ResolvedEnd, AlignedStart(b))
           /\ out[b] # <<>> => out[b][1].from = AlignedStart(b)

\* C19's case: the resolved start is after the resolved end, alignment has moved
\* it before the end, and the generator has emitted a bucket and ended
C19_Witness ==
    /\ call.made
    /\ RanWithPositiveCadence(TRUE)
    /\ DtLt(ResolvedEnd, ResolvedStart)
    /\ DtLt(AlignedStart(TRUE), ResolvedEnd)
    /\ gen[TRUE].pc = "exhausted"
    /\ Len(out[TRUE]) = 1

(***************************************************************************)
(* Claims about add_interval and subtract_interval.                        *)
(***************************************************************************)
\* the year a YearInterval call lands in
DestinationYear ==
    OrdToYmd(dateres.arg.ord)[1]
        + (IF dateres.op = "add_interval" THEN dateres.n ELSE 0 - dateres.n)

\* C14: YearInterval.add_interval(d, n) and subtract_interval(d, n) return the
\* month and the day of d in the destination year when that date exists, at d's
\* time of day; when d is February 29 and the destination year is no leap year
\* they return March 1 of the destination year, not February 28.
C14_YearIntervalLeapDayToMarchFirst ==
    (strategy.cls = "YearInterval"
     /\ dateres.op \in {"add_interval", "subtract_interval"})
    => LET d == OrdToYmd(dateres.arg.ord)
           r == OrdToYmd(dateres.res.ord)
       IN /\ dateres.res.tod = dateres.arg.tod
          /\ r = IF d[2] = 2 /\ d[3] = 29 /\ ~IsLeap(DestinationYear)
                 THEN <<DestinationYear, 3, 1>>
                 ELSE <<DestinationYear, d[2], d[3]>>

\* subtract_interval has been called on what add_interval returned, with the
\* cadence of add_interval
RoundTripMade == dateres.op = "subtract_interval" /\ dateres.again

\* the date d is a February 29
IsLeapDay(d) == OrdToYmd(d.ord)[2] = 2 /\ OrdToYmd(d.ord)[3] = 29

\* the <<year, month>> a strategy's add_interval(d, n) lands in when it moves
\* months or years
DestinationMonth(s, d, n) ==
    LET ymd == OrdToYmd(d.ord)
        months == ymd[1] * 12 + (ymd[2] - 1)
                    + (IF s.cls = "YearInterval" THEN 12 * n ELSE n)
    IN <<months \div 12, (months % 12) + 1>>

\* the day of d exists in the month add_interval(d, n) lands in
DayExistsAtDestination(s, d, n) ==
    \/ s.cls \in {"DayInterval", "WeekInterval"}
    \/ OrdToYmd(d.ord)[3] <= DaysInMonth(DestinationMonth(s, d, n)[1],
                                         DestinationMonth(s, d, n)[2])

\* C15 as stated: for each of the four strategies, every date d and every
\* cadence n >= 0, subtract_interval(add_interval(d, n), n) is d, the only
\* exception being a d that is February 29; so also for a MonthInterval and a d
\* that is the 29th, 30th or 31st of a month.
C15_RoundTripExceptLeapDay ==
    (RoundTripMade /\ ~IsLeapDay(dateres.origin)) => dateres.res = dateres.origin

\* C15 amended: for each of the four strategies, every date d and every cadence
\* n >= 0, subtract_interval(add_interval(d, n), n) is d exactly when the day of
\* d exists in the month add_interval lands in: always for a DayInterval and a
\* WeekInterval, and for a MonthInterval and a YearInterval unless the day was cut
\* to the length of a shorter month (the 29th, 30th or 31st of a month, February
\* 29 among them).
C15_RoundTripUnlessDayWasCut ==
    RoundTripMade
    => (dateres.res = dateres.origin
        <=> DayExistsAtDestination(strategy, dateres.origin, dateres.n))

\* C15's case: a MonthInterval has added a month to January 31 2023, which gave
\* February 28, and has subtracted the month again, which gave January 28
C15_Witness ==
    /\ strategy.cls = "MonthInterval"
    /\ RoundTripMade
    /\ dateres.n = 1
    /\ dateres.origin = MkDate(2023, 1, 31, 1)
    /\ dateres.arg = MkDate(2023, 2, 28, 1)
    /\ dateres.res = MkDate(2023, 1, 28, 1)

(***************************************************************************)
(* Claims about date_string_handler.                                       *)
(***************************************************************************)
\* the text date_string_handler was called with, trimmed and in lower case
ResolvedText == Strip(LowerStr(PyStr(resolved.date_string)))

\* the text is a "YYYY-MM-DD" that names a day of the calendar
IsCalendarDate(s) ==
    /\ Len(s) = 10
    /\ IsoAt(s, 1)
    /\ DigitsVal(SubSeq(s, 6, 7)) \in 1..12
    /\ DigitsVal(SubSeq(s, 9, 10))
         \in 1..DaysInMonth(DigitsVal(SubSeq(s, 1, 4)), DigitsVal(SubSeq(s, 6, 7)))

\* the most recent Sunday on or before the day of dt, at dt's time of day
SundayOnOrBefore(dt) == [ord |-> dt.ord - (dt.ord % 7), tod |-> dt.tod]

\* day 1 of the month before month m of year y
FirstOfMonthBefore(y, m, tod) ==
    IF m = 1 THEN MkDate(y - 1, 12, 1, tod) ELSE MkDate(y, m - 1, 1, tod)

\* C16: date_string_handler returns the calendar date a "YYYY-MM-DD" string names
\* and, for a past phrase, the current moment aligned to the start of its bucket
\* minus cadence units: today gives today, yesterday today minus one day,
\* this_week the most recent Sunday on or before today, this_month day 1 of this
\* month, this_year January 1 of this year, and last_week, last_month and
\* last_year that aligned start minus one week, one month and one year.
C16_DateStringHandlerResult ==
    resolved.kind # "none" =>
        LET now == resolved.now
            y == OrdToYmd(now.ord)[1]
            m == OrdToYmd(now.ord)[2]
            text == ResolvedText
            expected ==
                CASE text = W_today -> now
                  [] text = W_yesterday -> PlusDays(now, 0 - 1)
                  [] text = W_this_week -> SundayOnOrBefore(now)
                  [] text = W_this_month -> MkDate(y, m, 1, now.tod)
                  [] text = W_this_year -> MkDate(y, 1, 1, now.tod)
                  [] text = W_last_week -> PlusDays(SundayOnOrBefore(now), 0 - 7)
                  [] text = W_last_month -> FirstOfMonthBefore(y, m, now.tod)
                  [] text = W_last_year -> MkDate(y - 1, 1, 1, now.tod)
                  [] OTHER -> NoDate
        IN /\ IsCalendarDate(ResolvedText)
              => /\ resolved.kind = "ok"
                 /\ resolved.dt.tod = 0
                 /\ OrdToYmd(resolved.dt.ord)
                      = <<DigitsVal(SubSeq(text, 1, 4)), DigitsVal(SubSeq(text, 6, 7)),
                          DigitsVal(SubSeq(text, 9, 10))>>
           /\ expected # NoDate
              => resolved.kind = "ok" /\ resolved.dt = expected

\* C16's case: on Sunday 2022-11-20 last_week has resolved to Sunday 2022-11-13
C16_Witness ==
    /\ resolved.kind = "ok"
    /\ resolved.date_string = StrV(W_last_week)
    /\ resolved.now = MkDate(2022, 11, 20, 1)
    /\ resolved.dt = MkDate(2022, 11, 13, 1)

====
